---- MODULE Spec2Model ----
(***************************************************************************)
(* A model of rubbernecker's parallel parse pipeline                       *)
(* (src/rubbernecker/parse/tool.py): the coordinator ParseTool.            *)
(* parse_parallel, the worker processes (worker_process), the writer       *)
(* process (writer_process) and the two bounded multiprocessing queues     *)
(* between them; and of its Bloom filter                                   *)
(* (src/rubbernecker/crawl/bloomfilter.py) with the request loader that    *)
(* asks it, CrawlTool.load_requests, and the retry loop of CrawlTool.crawl *)
(* (src/rubbernecker/crawl/tool.py).                                       *)
(*                                                                         *)
(* Python values are represented as follows.  None in an integer position  *)
(* is the number None (-1); the tuple (seq_id, record) is the pair         *)
(* <<seq_id, record>>; the 4-tuple put on the result queue is a record     *)
(* with the fields msg_type, seq_id, results and task_stats, and a None    *)
(* results list is the empty sequence (the writer tests it with            *)
(* `if results:`, which does not tell None from []).  Sequences are        *)
(* 1-based: the record read with seq_id i is input[i + 1].                 *)
(***************************************************************************)
EXTENDS Integers, Sequences, FiniteSets, TLC

\* Bounds of the runs checked: workers per run, input records of a run the
\* environment leaves alone, input records of a run it may disturb, and
\* input records of the single-worker run that fills the queues.
MaxWorkers == 2
MaxRecords == 3
MaxFaultRecords == 1
BigRecords == 101

\* Python's None where the code holds an integer.
None == -1

VARIABLES
    faults,        \* whether the environment may interrupt or fail this run
    interrupted,   \* whether a KeyboardInterrupt was delivered to the run
    num_workers,   \* parse_parallel's argument
    input,         \* the records of the input container, in reading order
    cpc,           \* the coordinator's position in parse_parallel
    ci,            \* the coordinator's loop index over the workers
    record_count,  \* records the coordinator has put on work_queue
    wpc,           \* each worker process's position in worker_process
    parser,        \* each worker's parser: "unset", "loaded" or "error"
    pending,       \* the message a worker is about to put on result_queue
    work_queue,
    result_queue,
    wrpc,          \* the writer process's position in writer_process
    workers_done,  \* the writer's local counter
    shared_stats,  \* the manager dict the writer accumulates into
    output,        \* the output container at output_url
    stats,         \* parse_parallel's local stats, returned on success
    exc,           \* the exception parse_parallel raised, if any
    delete_result, \* what output_url.delete() did in the interrupt handler
    md5,           \* hashlib.md5 as a table: the digest of item + str(i)
    bloom_filter,  \* the BloomFilter object, or NoFilter
    added,         \* the items add() was called with and returned for
    call,          \* the latest call made on the filter and what it gave
    params,        \* the latest call of optimal_parameters and its result
    requests,      \* the input load_requests reads: its format and entries
    line_no,       \* entries load_requests has read
    yielded,       \* the URLs load_requests has yielded, in order
    crawl,         \* the arguments, locals and output of CrawlTool.crawl
    fetch,         \* the arguments, threads and output of FetchTool.fetch
    load           \* the prior output CrawlTool.load_bloom_filter reads

\* What a run is given; no step changes it.
config == << faults, num_workers, input >>

\* The state of a parse run.
pipeline == << config, interrupted, cpc, ci, record_count, wpc, parser,
               pending, work_queue, result_queue, wrpc, workers_done,
               shared_stats, output, stats, exc, delete_result >>

\* The state of the Bloom filter and of its user CrawlTool.load_requests.
filters == << md5, bloom_filter, added, call, params, requests, line_no,
              yielded >>

vars == << pipeline, filters, crawl, fetch, load >>

Max(a, b) == IF a >= b THEN a ELSE b

(***************************************************************************)
(* Records, parsers and messages                                           *)
(***************************************************************************)

\* What Parser.parse does with a record, by the record's kind:
\*   one   yields one record          two   yields two records
\*   zero  yields nothing             none  yields None
\*   fail  raises before any yield    part  yields one record, then raises
Kinds == {"one", "two", "zero", "none", "fail", "part"}

\* The output record a parser yields as its k-th item for an input record.
Out(record, k) == [src |-> record.id, k |-> k]

\* A yielded None.
NoneRecord == [src |-> None, k |-> None]

\* The items parser.parse(record) yields before it ends or raises.
ParseYields(record) ==
    CASE record.kind = "one"  -> << Out(record, 1) >>
      [] record.kind = "two"  -> << Out(record, 1), Out(record, 2) >>
      [] record.kind = "zero" -> << >>
      [] record.kind = "none" -> << NoneRecord >>
      [] record.kind = "fail" -> << >>
      [] record.kind = "part" -> << Out(record, 1) >>
      [] record.kind = "bad"  -> << Out(record, 1) >>

\* Whether parser.parse(record) raises after its yields.
ParseRaises(record) == record.kind \in {"fail", "part"}

ParseToolStats(i, o, e) ==
    [count_input |-> i, count_output |-> o, count_error |-> e]

StatsAdd(a, b) ==
    ParseToolStats(a.count_input + b.count_input,
                   a.count_output + b.count_output,
                   a.count_error + b.count_error)

POISON_PILL == << None, [id |-> None, kind |-> "None"] >>

DoneMsg ==
    [msg_type |-> "done", seq_id |-> None, results |-> << >>,
     task_stats |-> ParseToolStats(0, 0, 0)]

NoMsg ==
    [msg_type |-> "none", seq_id |-> None, results |-> << >>,
     task_stats |-> ParseToolStats(0, 0, 0)]

\* IsNotNone with a worker that keeps every item the parser yields.
IsNotNone_keeps_all(parsed_record) == TRUE

\* Line 73: `if parsed_record is not None`.
IsNotNone(parsed_record) == parsed_record # NoneRecord

\* The message worker_process puts on result_queue for one task: the try
\* body collects the non-None yields and counts them; the except branch
\* keeps the counts made so far, sets count_error and sends no results.
WorkerResult(task) ==
    LET seq_id  == task[1]
        record  == task[2]
        results == SelectSeq(ParseYields(record), IsNotNone)
    IN  IF ParseRaises(record)
        THEN [msg_type |-> "result", seq_id |-> seq_id, results |-> << >>,
              task_stats |-> ParseToolStats(1, Len(results), 1)]
        ELSE [msg_type |-> "result", seq_id |-> seq_id, results |-> results,
              task_stats |-> ParseToolStats(1, Len(results), 0)]

\* queue_maxsize with the factor applied outside max().
queue_maxsize_scaled == Max(100, num_workers) * 10

queue_maxsize == Max(100, num_workers * 10)

Workers == 0 .. (num_workers - 1)

NoOutput == [exists |-> FALSE, records |-> << >>]

NoExc == [type |-> "none", dead_workers |-> {}]

\* Process.is_alive(): started and not yet exited.
IsAlive(pc) == pc \in {"init", "get", "put", "open", "loop"}

(***************************************************************************)
(* BloomFilter (src/rubbernecker/crawl/bloomfilter.py) and the URLs that   *)
(* CrawlTool (src/rubbernecker/crawl/tool.py) keeps in it                  *)
(***************************************************************************)

\* Bounds of the filters checked: cells of the bit array, hash functions,
\* the largest digest md5 gives, the largest expected element count given
\* to optimal_parameters, and the entries of a load_requests input.
MaxSize == 2
MaxHashCount == 2
MaxDigest == 2
MaxN == 15
MaxLines == 2

\* Bounds of the crawls checked: requests, max_depth, max_retries,
\* max_errors, and the iterations of the `while True` loop followed for
\* one request.
MaxUrls == 2
MaxDepth == 1
MaxRetries == 2
MaxErrors == 2
MaxAttempts == 4

\* Bounds of the fetches checked: max_workers of the thread pool and the
\* URLs of the input.
MaxParallelism == 2
MaxFetchUrls == 2

\* Bound of the prior outputs checked: their records.
MaxPriorRecords == 2

\* A URL as urlparse splits it.
Url(scheme, netloc, path, query, fragment) ==
    [scheme |-> scheme, netloc |-> netloc, path |-> path, query |-> query,
     fragment |-> fragment]

\* The URLs of the inputs checked: a page, the same page spelled in upper
\* case, the same page under another scheme and with a fragment, and
\* another page.
Urls ==
    { Url("https", "a.io", "/x", "", ""),
      Url("https", "A.IO", "/X", "", ""),
      Url("http", "a.io", "/x", "", "top"),
      Url("https", "b.io", "/x", "q=1", "") }

\* str.lower() on the strings that occur in Urls.
Lower(s) ==
    CASE s = "A.IO" -> "a.io"
      [] s = "/X"   -> "/x"
      [] OTHER      -> s

\* CrawlTool.bloom_filter_key: netloc, path and query of the lower-cased
\* URL; the scheme and the fragment are left out.
bloom_filter_key(url) ==
    << Lower(url.netloc), Lower(url.path), Lower(url.query) >>

\* The items the filters checked are asked about.
Items == { bloom_filter_key(url) : url \in Urls }

NoItem == << >>

HashIndexes == 0 .. (MaxHashCount - 1)

Digests == 0 .. MaxDigest

\* The tables md5 may be: int(hashlib.md5((item + str(i)).encode())
\* .hexdigest(), 16) for every item and every i.
Md5Tables == [Items \X HashIndexes -> Digests]

NoDigests == << >>

NoFilter == [size |-> None, hash_count |-> None, bit_array |-> << >>]

\* BloomFilter.__init__: a bit array of `size` zeros, kept with the two
\* arguments.  No argument is refused.
BloomFilter(size, hash_count) ==
    [size |-> size, hash_count |-> hash_count,
     bit_array |-> [cell \in 0 .. (size - 1) |-> 0]]

\* Whether _hashes raises ZeroDivisionError: it takes hash_result % size
\* as soon as it is asked for a first value.
HashesRaise(self) == self.hash_count > 0 /\ self.size = 0

\* BloomFilter._hashes: the hash_count cells of an item.
Hashes(self, item) ==
    [i \in 1 .. self.hash_count |-> md5[item, i - 1] % self.size]

\* SetCells with an add that starts from an empty bit array.
SetCells_fresh(bit_array, cells) ==
    [cell \in DOMAIN bit_array |-> IF cell \in cells THEN 1 ELSE 0]

\* SetCells with an add that flips the cells it is given.
SetCells_toggle(bit_array, cells) ==
    [cell \in DOMAIN bit_array |->
        IF cell \in cells THEN 1 - bit_array[cell] ELSE bit_array[cell]]

\* Line 46 for every hash value: the given cells become 1, the others keep
\* their value.
SetCells(bit_array, cells) ==
    [cell \in DOMAIN bit_array |->
        IF cell \in cells THEN 1 ELSE bit_array[cell]]

\* add with a filter that takes items only while it is empty.
add_while_empty(self, item) ==
    LET hashes == Hashes(self, item)
    IN  IF \E cell \in DOMAIN self.bit_array : self.bit_array[cell] = 1
        THEN self
        ELSE [self EXCEPT !.bit_array =
                 SetCells(@, { hashes[i] : i \in DOMAIN hashes })]

\* BloomFilter.add, when _hashes does not raise.
add(self, item) ==
    LET hashes == Hashes(self, item)
    IN  [self EXCEPT !.bit_array =
            SetCells(@, { hashes[i] : i \in DOMAIN hashes })]

\* check with any() in the place of all().
check_any(self, item) ==
    LET hashes == Hashes(self, item)
    IN  \E i \in DOMAIN hashes : self.bit_array[hashes[i]] = 1

\* BloomFilter.check, when _hashes does not raise: all() over the cells of
\* the item.
check(self, item) ==
    LET hashes == Hashes(self, item)
    IN  \A i \in DOMAIN hashes : self.bit_array[hashes[i]] = 1

\* A call on the filter: the method, its argument, what it returned (False
\* where it returns None) and the exception it raised.
Call(op, item, result, raised) ==
    [op |-> op, item |-> item, result |-> result, raised |-> raised]

NoCall == Call("none", NoItem, FALSE, "none")

\* The false-positive probabilities given to optimal_parameters, in
\* thousandths.
Probabilities == {1, 10, 100, 300, 700, 900, 990}

\* math.log(p) in units of 1/10000, for p in thousandths.
Log(p) ==
    CASE p = 1   -> -69078
      [] p = 10  -> -46052
      [] p = 100 -> -23026
      [] p = 300 -> -12040
      [] p = 700 -> -3567
      [] p = 900 -> -1054
      [] p = 990 -> -101

\* math.log(2) and math.log(2) ** 2 in units of 1/10000.
Log2 == 6931
Log2Squared == 4805

\* int() of a float kept in thousandths: truncation towards zero.
int(milli) ==
    IF milli >= 0 THEN milli \div 1000 ELSE -((-milli) \div 1000)

\* OptimalM without the minus sign of line 67.
OptimalM_unsigned(n, p) == ((n * Log(p)) * 1000) \div Log2Squared

\* Line 67, m = -(n * math.log(p)) / (math.log(2) ** 2), in thousandths.
OptimalM(n, p) == (-(n * Log(p)) * 1000) \div Log2Squared

\* Line 68, k = (m / n) * math.log(2), in thousandths.
OptimalK(n, p) == ((OptimalM(n, p) \div n) * Log2) \div 10000

\* BloomFilter.optimal_parameters: int(m), int(k).
optimal_parameters(n, p) ==
    [n |-> n, p |-> p, size |-> int(OptimalM(n, p)),
     hash_count |-> int(OptimalK(n, p))]

NoParams == [n |-> None, p |-> None, size |-> None, hash_count |-> None]

\* The formats of a load_requests input.
InputFormats == {"text", "json", "avro"}

\* An entry of the input: a line of a text or JSONL file, or an Avro
\* record, which may lack the "url" field.
UrlEntry(url) == [has_url |-> TRUE, url |-> url]

NoUrlEntry == [has_url |-> FALSE, url |-> Url("", "", "", "", "")]

\* The entries an input of the given format may hold.
Entries(input_format) ==
    { UrlEntry(url) : url \in Urls }
        \cup (IF input_format = "avro" THEN {NoUrlEntry} ELSE {})

NoRequests == [input_format |-> "none", entries |-> << >>]

\* CrawlToolStats.
CrawlToolStats(i, o, e) ==
    [count_input |-> i, count_output |-> o, count_error |-> e]

\* The record writer.append writes for a page (lines 327-333) or for an
\* error (lines 382-388) of the url_no-th request.
CrawlRecord(url_no, is_error) == [url |-> url_no, error |-> is_error]

\* The state of a call of CrawlTool.crawl at position pc: its arguments
\* (num_urls requests, max_depth, max_retries, max_errors with 0 for the
\* default None, whether crawl_actions are given and apply), the locals
\* of lines 264-269, the iterations made of the `while True` of the
\* current request, and the records appended to the output.
Crawl(pc, num_urls, max_depth, max_retries, max_errors, crawl_actions) ==
    [pc            |-> pc,
     num_urls      |-> num_urls,
     max_depth     |-> max_depth,
     max_retries   |-> max_retries,
     max_errors    |-> max_errors,
     crawl_actions |-> crawl_actions,
     url_no        |-> 0,
     depth         |-> 0,
     retries       |-> 0,
     crawling      |-> FALSE,
     attempts      |-> 0,
     stats         |-> CrawlToolStats(0, 0, 0),
     written       |-> << >>]

\* crawl is not called.
NoCrawl == Crawl("idle", 0, 0, 0, 0, FALSE)

\* FetchToolStats.
FetchToolStats(i, o, e, s) ==
    [count_input |-> i, count_output |-> o, count_error |-> e,
     count_skipped |-> s]

\* The state of a call of FetchTool.fetch at position pc, without force:
\* max_workers of the thread pool, the path of each URL of the input (the
\* key fetch_url asks the filter about), the position of each call of
\* fetch_url, the paths written to the output, and the stats.
Fetch(pc, parallelism, paths) ==
    [pc          |-> pc,
     parallelism |-> parallelism,
     paths       |-> paths,
     task        |-> [t \in DOMAIN paths |-> "submitted"],
     written     |-> << >>,
     stats       |-> FetchToolStats(0, 0, 0, 0)]

\* fetch is not called.
NoFetch == Fetch("idle", 0, << >>)

\* A record of a prior output: whether it has the field url, its url, and
\* whether record.get("error") is None ("null") or a message ("set").
PriorRecord(has_url, url, error) ==
    [has_url |-> has_url, url |-> url, error |-> error]

\* A prior output of the crawler as load_bloom_filter meets it: the position
\* of the call ("exists" at line 133, "read" in the loop of lines 136-145,
\* "returned"), whether the output exists, its records, the records read so
\* far, the keys counted (line 145) and what the call returned.
Load(exists, records) ==
    [pc |-> "exists", exists |-> exists, records |-> records, line_no |-> 0,
     count |-> 0, returned |-> "no"]

\* load_bloom_filter is not called.
NoLoad == Load(FALSE, << >>)

\* A run of the parse pipeline touches no filter, loads no requests and
\* crawls nothing.
NoFilters ==
    /\ md5 = NoDigests
    /\ bloom_filter = NoFilter
    /\ added = {}
    /\ call = NoCall
    /\ params = NoParams
    /\ requests = NoRequests
    /\ line_no = 0
    /\ yielded = << >>
    /\ crawl = NoCrawl
    /\ fetch = NoFetch
    /\ load = NoLoad

(***************************************************************************)
(* Initial states                                                          *)
(***************************************************************************)

\* The kinds in a fixed order; the inputs checked are its stretches.
KindCycle == << "one", "two", "zero", "none", "fail", "part" >>

\* The sequences of m kinds that follow each other in KindCycle (cyclically).
KindRuns(m) ==
    { [i \in 1 .. m |-> KindCycle[((start + i - 2) % Len(KindCycle)) + 1]] :
        start \in 1 .. Len(KindCycle) }

\* The sequences of m records of one kind.
UniformRuns(m) == { [i \in 1 .. m |-> kind] : kind \in Kinds }

\* The input container holding the given kinds, with ids 0, 1, 2, ...
InputOf(kinds) == [i \in 1 .. Len(kinds) |-> [id |-> i - 1, kind |-> kinds[i]]]

InitRun(f, w, recs) ==
    /\ faults = f
    /\ interrupted = FALSE
    /\ num_workers = w
    /\ input = recs
    /\ cpc = IF w > 0 THEN "spawn" ELSE "check"
    /\ ci = 0
    /\ record_count = 0
    /\ wpc = [i \in 0 .. (w - 1) |-> "unborn"]
    /\ parser = [i \in 0 .. (w - 1) |-> "unset"]
    /\ pending = [i \in 0 .. (w - 1) |-> NoMsg]
    /\ work_queue = << >>
    /\ result_queue = << >>
    /\ wrpc = "unborn"
    /\ workers_done = 0
    /\ shared_stats = ParseToolStats(0, 0, 0)
    /\ output = NoOutput
    /\ stats = ParseToolStats(0, 0, 0)
    /\ exc = NoExc
    /\ delete_result = "none"
    /\ NoFilters

\* Small runs over every kind of record: undisturbed ones, and shorter
\* ones in which the environment may interrupt the coordinator, fail a
\* worker's parser construction, let a process outlive its SIGTERM or
\* fail the delete.
Init ==
    \/ \E w \in 1 .. MaxWorkers, m \in 0 .. MaxRecords :
           \E kinds \in KindRuns(m) \cup UniformRuns(m) :
               InitRun(FALSE, w, InputOf(kinds))
    \/ \E w \in 1 .. MaxWorkers, m \in 0 .. MaxFaultRecords :
           \E kinds \in KindRuns(m) : InitRun(TRUE, w, InputOf(kinds))

\* The runs checked under fair scheduling: undisturbed runs of up to
\* MaxWorkers workers, and disturbed runs of a single worker.
InitFair ==
    \/ \E w \in 1 .. MaxWorkers, m \in 0 .. MaxFaultRecords :
           \E kinds \in KindRuns(m) : InitRun(FALSE, w, InputOf(kinds))
    \/ \E m \in 0 .. MaxFaultRecords :
           \E kinds \in KindRuns(m) : InitRun(TRUE, 1, InputOf(kinds))

\* Disturbed runs of two workers, in which one worker can fail to build
\* its parser while the other works on.
InitFail ==
    \E m \in 0 .. MaxFaultRecords :
        \E kinds \in KindRuns(m) : InitRun(TRUE, 2, InputOf(kinds))

\* The inputs of m records whose first record gives an output that the
\* schema rejects.
BadFirst(m) == InputOf([i \in 1 .. m |-> IF i = 1 THEN "bad" ELSE "one"])

\* Undisturbed runs whose first record gives an output the schema
\* rejects: short ones, and with one worker one of more records than a
\* queue holds.
InitBad ==
    \/ \E w \in 1 .. MaxWorkers, m \in 1 .. MaxRecords :
           InitRun(FALSE, w, BadFirst(m))
    \/ InitRun(FALSE, 1, BadFirst(BigRecords))

\* One worker and more records than a queue holds, undisturbed.
InitQ ==
    InitRun(FALSE, 1, InputOf([i \in 1 .. BigRecords |-> "one"]))

\* parse_parallel is called with num_workers = 0 or -1, on a short input
\* and on one with more records than a queue holds.
InitZero ==
    \E w \in {0, -1}, m \in (0 .. MaxFaultRecords) \cup {BigRecords} :
        InitRun(FALSE, w, InputOf([i \in 1 .. m |-> "one"]))

(***************************************************************************)
(* Worker processes                                                        *)
(***************************************************************************)

\* AfterInitError with a worker that returns without reporting.
AfterInitError_silent == "exited"

\* Lines 53-57: a worker that cannot build its parser puts "done" and
\* returns.
AfterInitError == "put"

\* Lines 49-57: build the parser; on failure send "done" and return.
WorkerInit(w) ==
    /\ wpc[w] = "init"
    /\ \/ /\ parser' = [parser EXCEPT ![w] = "loaded"]
          /\ wpc' = [wpc EXCEPT ![w] = "get"]
          /\ UNCHANGED pending
       \/ /\ faults
          /\ parser' = [parser EXCEPT ![w] = "error"]
          /\ pending' = [pending EXCEPT ![w] = DoneMsg]
          /\ wpc' = [wpc EXCEPT ![w] = AfterInitError]
    /\ UNCHANGED << filters, crawl, fetch, load, config, interrupted, cpc, ci,
                    record_count, work_queue, result_queue, wrpc,
                    workers_done, shared_stats, output, stats, exc,
                    delete_result >>

\* QueueRest with a get that leaves the item it returned on the queue.
QueueRest_peek(queue) == queue

\* What work_queue.get() (line 60) leaves on the queue: all but the item
\* it returned.
QueueRest(queue) == Tail(queue)

\* Lines 60-82 up to the put: take a task; a poison pill leads to "done",
\* any other task is parsed into a result message.
WorkerGet(w) ==
    /\ wpc[w] = "get"
    /\ work_queue # << >>
    /\ LET task == Head(work_queue)
       IN  pending' = [pending EXCEPT ![w] =
                          IF task = POISON_PILL THEN DoneMsg
                          ELSE WorkerResult(task)]
    /\ work_queue' = QueueRest(work_queue)
    /\ wpc' = [wpc EXCEPT ![w] = "put"]
    /\ UNCHANGED << filters, crawl, fetch, load, config, interrupted, cpc, ci,
                    record_count, parser, result_queue, wrpc, workers_done,
                    shared_stats, output, stats, exc, delete_result >>

\* AfterPut with a worker that gives up after a record that failed.
AfterPut_exit_on_error(msg) ==
    IF msg.msg_type = "done" \/ msg.task_stats.count_error > 0
    THEN "exited"
    ELSE "get"

\* AfterPut with a worker that forgets to leave its loop after "done".
AfterPut_never_exits(msg) == "get"

\* Where a worker goes after putting a message: "done" ends the process
\* (lines 57 and 64), a result returns to the head of the loop.
AfterPut(msg) == IF msg.msg_type = "done" THEN "exited" ELSE "get"

\* result_queue.put(...), lines 56, 63, 76 and 82: blocks while full.
WorkerPut(w) ==
    /\ wpc[w] = "put"
    /\ Len(result_queue) < queue_maxsize
    /\ result_queue' = Append(result_queue, pending[w])
    /\ wpc' = [wpc EXCEPT ![w] = AfterPut(pending[w])]
    /\ pending' = [pending EXCEPT ![w] = NoMsg]
    /\ UNCHANGED << filters, crawl, fetch, load, config, interrupted, cpc, ci,
                    record_count, parser, work_queue, wrpc, workers_done,
                    shared_stats, output, stats, exc, delete_result >>

(***************************************************************************)
(* Writer process                                                          *)
(***************************************************************************)

\* Line 96: avro_writer(output_url.with_mode("wb"), schema) creates the
\* output container, empty.
WriterOpen ==
    /\ wrpc = "open"
    /\ output' = [exists |-> TRUE, records |-> << >>]
    /\ wrpc' = "loop"
    /\ UNCHANGED << filters, crawl, fetch, load, config, interrupted, cpc, ci,
                    record_count, wpc, parser, pending, work_queue,
                    result_queue, workers_done, shared_stats, stats, exc,
                    delete_result >>

\* WriterAppend with a writer that keeps only the latest task's records.
WriterAppend_overwrite(out, results) ==
    IF out.exists
    THEN [out EXCEPT !.records = results]
    ELSE out

\* WriterAppend with a writer that puts each task's records first.
WriterAppend_front(out, results) ==
    IF out.exists
    THEN [out EXCEPT !.records = results \o out.records]
    ELSE out

\* Lines 110-112: append every result; appends to a container that was
\* deleted under the writer do not bring it back.
WriterAppend(out, results) ==
    IF out.exists
    THEN [out EXCEPT !.records = out.records \o results]
    ELSE out

\* writer.append(parsed_record), line 112, raises for a record that does
\* not fit the schema: here, the records made from an input of kind "bad".
SchemaRejects(parsed_record) ==
    /\ parsed_record # NoneRecord
    /\ input[parsed_record.src + 1].kind = "bad"

\* The loop of lines 111-112 raises at the first result the schema
\* rejects.
AppendRaises(results) ==
    \E j \in 1 .. Len(results) : SchemaRejects(results[j])

\* The results that the loop of lines 111-112 appends: all of them, or
\* those before the first one that the schema rejects.
Appended(results) ==
    IF AppendRaises(results)
    THEN LET first == CHOOSE j \in 1 .. Len(results) :
                          /\ SchemaRejects(results[j])
                          /\ \A k \in 1 .. (j - 1) : ~SchemaRejects(results[k])
         IN  SubSeq(results, 1, first - 1)
    ELSE results

\* Lines 96-112: nothing in writer_process catches an exception of
\* writer.append, so it ends the writer process.
AfterAppend(results) == IF AppendRaises(results) THEN "crashed" ELSE "loop"

\* WriterLoops with a writer that stops at the first "done" it counts.
WriterLoops_first_done(done) == done < 1

\* Line 97: the writer loops while it has counted fewer "done" messages
\* than there are workers.
WriterLoops(done) == done < num_workers

\* Lines 97-112: one iteration of the writer loop.
WriterGet ==
    /\ wrpc = "loop"
    /\ WriterLoops(workers_done)
    /\ result_queue # << >>
    /\ LET msg == Head(result_queue)
       IN  IF msg.msg_type = "done"
           THEN /\ workers_done' = workers_done + 1
                /\ UNCHANGED << shared_stats, output, wrpc >>
           ELSE /\ shared_stats' = StatsAdd(shared_stats, msg.task_stats)
                /\ output' = WriterAppend(output, Appended(msg.results))
                /\ wrpc' = AfterAppend(msg.results)
                /\ UNCHANGED workers_done
    /\ result_queue' = Tail(result_queue)
    /\ UNCHANGED << filters, crawl, fetch, load, config, interrupted, cpc, ci,
                    record_count, wpc, parser, pending, work_queue, stats,
                    exc, delete_result >>

\* Lines 97 and 126: the loop ends once every worker has said "done".
WriterExit ==
    /\ wrpc = "loop"
    /\ ~WriterLoops(workers_done)
    /\ wrpc' = "exited"
    /\ UNCHANGED << filters, crawl, fetch, load, config, interrupted, cpc, ci,
                    record_count, wpc, parser, pending, work_queue,
                    result_queue, workers_done, shared_stats, output, stats,
                    exc, delete_result >>

(***************************************************************************)
(* Coordinator: ParseTool.parse_parallel                                   *)
(***************************************************************************)

\* Where the coordinator stands once k workers are started (lines 243-253).
AfterSpawn(k) == IF k < num_workers THEN "spawn" ELSE "check"

\* Where it stands once k workers are joined (lines 293-299).
AfterJoins(k) == IF k < num_workers THEN "join_workers" ELSE "join_writer"

\* AfterPills with a coordinator that queues one pill too few.
AfterPills_one_short(k) ==
    IF k + 1 < num_workers THEN "pills" ELSE AfterJoins(0)

\* Where it stands once k poison pills are queued (lines 288-293).
AfterPills(k) == IF k < num_workers THEN "pills" ELSE AfterJoins(0)

\* AfterRead with a reader that stops one record before the end.
AfterRead_skips_last(n) ==
    IF n + 1 < Len(input) THEN "produce" ELSE AfterPills(0)

\* Where it stands once n records are queued (lines 281-288).
AfterRead(n) == IF n < Len(input) THEN "produce" ELSE AfterPills(0)

\* Where the handler stands once k workers are terminated (lines 311-316).
AfterTerminate(k) == IF k < num_workers THEN "int_workers" ELSE "int_writer"

\* Lines 243-250: start worker ci.
CoordStartWorker ==
    /\ cpc = "spawn"
    /\ wpc' = [wpc EXCEPT ![ci] = "init"]
    /\ cpc' = AfterSpawn(ci + 1)
    /\ ci' = IF AfterSpawn(ci + 1) = "spawn" THEN ci + 1 ELSE 0
    /\ UNCHANGED << filters, crawl, fetch, load, config, interrupted,
                    record_count, parser, pending, work_queue, result_queue,
                    wrpc, workers_done, shared_stats, output, stats, exc,
                    delete_result >>

\* DeadWorkers with the liveness test the wrong way round.
DeadWorkers_inverted == { i \in Workers : IsAlive(wpc[i]) }

\* Line 256: the workers that are not alive after the sleep.
DeadWorkers == { i \in Workers : ~IsAlive(wpc[i]) }

\* Lines 253-260: after the sleep, raise if any worker is dead.
CoordCheck ==
    /\ cpc = "check"
    /\ IF DeadWorkers # {}
       THEN /\ cpc' = "raised"
            /\ exc' = [type |-> "RuntimeError", dead_workers |-> DeadWorkers]
       ELSE /\ cpc' = "start_writer"
            /\ UNCHANGED exc
    /\ UNCHANGED << filters, crawl, fetch, load, config, interrupted, ci,
                    record_count, wpc, parser, pending, work_queue,
                    result_queue, wrpc, workers_done, shared_stats, output,
                    stats, delete_result >>

\* Lines 263-280: start the writer process and open the input.
CoordStartWriter ==
    /\ cpc = "start_writer"
    /\ wrpc' = "open"
    /\ cpc' = AfterRead(0)
    /\ UNCHANGED << filters, crawl, fetch, load, config, interrupted, ci,
                    record_count, wpc, parser, pending, work_queue,
                    result_queue, workers_done, shared_stats, output, stats,
                    exc, delete_result >>

\* Task with the numbering started at one.
Task_from_one(n) == << n + 1, input[n + 1] >>

\* Lines 281-282: the task made of the record read after n others;
\* enumerate() numbers the records from 0.
Task(n) == << n, input[n + 1] >>

\* Lines 281-283: work_queue.put((seq_id, record)), blocking while full;
\* seq_id and record_count count the same records.
CoordPut ==
    /\ cpc = "produce"
    /\ Len(work_queue) < queue_maxsize
    /\ work_queue' = Append(work_queue, Task(record_count))
    /\ record_count' = record_count + 1
    /\ cpc' = AfterRead(record_count + 1)
    /\ UNCHANGED << filters, crawl, fetch, load, config, interrupted, ci, wpc,
                    parser, pending, result_queue, wrpc, workers_done,
                    shared_stats, output, stats, exc, delete_result >>

\* Lines 288-289: one poison pill per worker.
CoordPutPill ==
    /\ cpc = "pills"
    /\ Len(work_queue) < queue_maxsize
    /\ work_queue' = Append(work_queue, POISON_PILL)
    /\ cpc' = AfterPills(ci + 1)
    /\ ci' = IF AfterPills(ci + 1) = "pills" THEN ci + 1 ELSE 0
    /\ UNCHANGED << filters, crawl, fetch, load, config, interrupted,
                    record_count, wpc, parser, pending, result_queue, wrpc,
                    workers_done, shared_stats, output, stats, exc,
                    delete_result >>

\* Lines 293-295: p.join() on worker ci, without a timeout.
CoordJoinWorker ==
    /\ cpc = "join_workers"
    /\ ~IsAlive(wpc[ci])
    /\ cpc' = AfterJoins(ci + 1)
    /\ ci' = IF AfterJoins(ci + 1) = "join_workers" THEN ci + 1 ELSE 0
    /\ UNCHANGED << filters, crawl, fetch, load, config, interrupted,
                    record_count, wpc, parser, pending, work_queue,
                    result_queue, wrpc, workers_done, shared_stats, output,
                    stats, exc, delete_result >>

\* CoordJoinWriter with a coordinator that clears the shared counters once
\* it has copied them.
CoordJoinWriter_resets ==
    /\ cpc = "join_writer"
    /\ ~IsAlive(wrpc)
    /\ stats' = StatsAdd(stats, shared_stats)
    /\ shared_stats' = ParseToolStats(0, 0, 0)
    /\ cpc' = "returned"
    /\ UNCHANGED << filters, crawl, fetch, load, config, interrupted, ci,
                    record_count, wpc, parser, pending, work_queue,
                    result_queue, wrpc, workers_done, output, exc,
                    delete_result >>

\* Lines 299-305 and 328: join the writer, copy the shared stats, return.
CoordJoinWriter ==
    /\ cpc = "join_writer"
    /\ ~IsAlive(wrpc)
    /\ stats' = StatsAdd(stats, shared_stats)
    /\ cpc' = "returned"
    /\ UNCHANGED << filters, crawl, fetch, load, config, interrupted, ci,
                    record_count, wpc, parser, pending, work_queue,
                    result_queue, wrpc, workers_done, shared_stats, output,
                    exc, delete_result >>

\* The positions inside the try block of lines 275-305.
TryPositions == {"produce", "pills", "join_workers", "join_writer"}

\* A KeyboardInterrupt reaches the coordinator.  Inside the try block the
\* handler of line 307 takes over; before it (lines 241-273) nothing
\* catches it and it leaves parse_parallel at once.
Interrupt ==
    /\ faults
    /\ ~interrupted
    /\ \/ /\ cpc \in TryPositions
          /\ cpc' = AfterTerminate(0)
          /\ ci' = 0
          /\ UNCHANGED exc
       \/ /\ cpc \in {"spawn", "check", "start_writer"}
          /\ cpc' = "raised"
          /\ exc' = [type |-> "KeyboardInterrupt", dead_workers |-> {}]
          /\ UNCHANGED ci
    /\ interrupted' = TRUE
    /\ UNCHANGED << filters, crawl, fetch, load, config, record_count, wpc,
                    parser, pending, work_queue, result_queue, wrpc,
                    workers_done, shared_stats, output, stats,
                    delete_result >>

\* What p.terminate(); p.join(timeout=1) can leave of a live process:
\* it died of the SIGTERM, or it is still running when the join times out.
TerminateOutcomes(pc) == {"killed", pc}

\* Lines 311-314: terminate worker ci if it is alive.
CoordTerminateWorker ==
    /\ cpc = "int_workers"
    /\ IF IsAlive(wpc[ci])
       THEN \E after \in TerminateOutcomes(wpc[ci]) :
                /\ wpc' = [wpc EXCEPT ![ci] = after]
                /\ pending' = [pending EXCEPT ![ci] =
                                  IF after = "killed" THEN NoMsg ELSE @]
       ELSE UNCHANGED << wpc, pending >>
    /\ cpc' = AfterTerminate(ci + 1)
    /\ ci' = IF AfterTerminate(ci + 1) = "int_workers" THEN ci + 1 ELSE 0
    /\ UNCHANGED << filters, crawl, fetch, load, config, interrupted,
                    record_count, parser, work_queue, result_queue, wrpc,
                    workers_done, shared_stats, output, stats, exc,
                    delete_result >>

\* Lines 316-318: terminate the writer if it is alive.
CoordTerminateWriter ==
    /\ cpc = "int_writer"
    /\ IF IsAlive(wrpc)
       THEN \E after \in TerminateOutcomes(wrpc) : wrpc' = after
       ELSE UNCHANGED wrpc
    /\ cpc' = "int_delete"
    /\ UNCHANGED << filters, crawl, fetch, load, config, interrupted, ci,
                    record_count, wpc, parser, pending, work_queue,
                    result_queue, workers_done, shared_stats, output, stats,
                    exc, delete_result >>

\* What output_url.delete() can do: remove an existing container, or raise
\* (always so when there is nothing to remove).
DeleteOutcomes(out) == IF out.exists THEN {"ok", "error"} ELSE {"error"}

\* HandlerRaises without the `except Exception: pass` around delete().
HandlerRaises_unguarded(result) ==
    IF result = "error" THEN "DeleteError" ELSE "KeyboardInterrupt"

\* Lines 322-326: `except Exception: pass`, then the bare `raise` re-raises
\* the KeyboardInterrupt whatever delete() did.
HandlerRaises(result) == "KeyboardInterrupt"

\* Lines 321-326: delete the partial output and re-raise.
CoordDelete ==
    /\ cpc = "int_delete"
    /\ \E result \in DeleteOutcomes(output) :
        /\ delete_result' = result
        /\ output' = IF result = "ok" THEN NoOutput ELSE output
        /\ exc' = [type |-> HandlerRaises(result), dead_workers |-> {}]
    /\ cpc' = "raised"
    /\ UNCHANGED << filters, crawl, fetch, load, config, interrupted, ci,
                    record_count, wpc, parser, pending, work_queue,
                    result_queue, wrpc, workers_done, shared_stats, stats >>

(***************************************************************************)
(* Specifications                                                          *)
(***************************************************************************)

WorkerInits == \E w \in Workers : WorkerInit(w)

WorkerGets == \E w \in Workers : WorkerGet(w)

WorkerPuts == \E w \in Workers : WorkerPut(w)

Next ==
    \/ CoordStartWorker
    \/ CoordCheck
    \/ CoordStartWriter
    \/ CoordPut
    \/ CoordPutPill
    \/ CoordJoinWorker
    \/ CoordJoinWriter
    \/ Interrupt
    \/ CoordTerminateWorker
    \/ CoordTerminateWriter
    \/ CoordDelete
    \/ WorkerInits
    \/ WorkerGets
    \/ WorkerPuts
    \/ WriterOpen
    \/ WriterGet
    \/ WriterExit

\* The steps of the coordinator, of worker w and of the writer.
CoordNext ==
    \/ CoordStartWorker \/ CoordCheck \/ CoordStartWriter \/ CoordPut
    \/ CoordPutPill \/ CoordJoinWorker \/ CoordJoinWriter
    \/ CoordTerminateWorker \/ CoordTerminateWriter \/ CoordDelete

WorkerNext(w) ==
    /\ w \in Workers
    /\ WorkerInit(w) \/ WorkerGet(w) \/ WorkerPut(w)

WriterNext == WriterOpen \/ WriterGet \/ WriterExit

\* Every process that can take a step is eventually scheduled; nothing
\* obliges the environment to interrupt.
Fairness ==
    /\ WF_vars(CoordNext)
    /\ WF_vars(WriterNext)
    /\ \A w \in 0 .. (MaxWorkers - 1) : WF_vars(WorkerNext(w))

Spec == Init /\ [][Next]_vars

\* The small runs together with the queue-filling run.
SpecQ == (Init \/ InitQ) /\ [][Next]_vars

FairSpec == InitFair /\ [][Next]_vars /\ Fairness

\* The fair runs together with the queue-filling run.
FairSpecQ == (InitFair \/ InitQ) /\ [][Next]_vars /\ Fairness

\* The fair runs together with the disturbed runs of two workers.
FairSpecFail == (InitFair \/ InitFail) /\ [][Next]_vars /\ Fairness

\* The fair runs together with the runs whose output the schema rejects.
FairSpecBad == (InitFair \/ InitBad) /\ [][Next]_vars /\ Fairness

\* The runs of InitFair together with the runs without workers.
SpecZero == (InitFair \/ InitZero) /\ [][Next]_vars

(***************************************************************************)
(* BloomFilter calls and CrawlTool.load_requests                           *)
(***************************************************************************)

\* No parse run is under way.
NoRun ==
    /\ faults = FALSE
    /\ interrupted = FALSE
    /\ num_workers = 0
    /\ input = << >>
    /\ cpc = "idle"
    /\ ci = 0
    /\ record_count = 0
    /\ wpc = << >>
    /\ parser = << >>
    /\ pending = << >>
    /\ work_queue = << >>
    /\ result_queue = << >>
    /\ wrpc = "unborn"
    /\ workers_done = 0
    /\ shared_stats = ParseToolStats(0, 0, 0)
    /\ output = NoOutput
    /\ stats = ParseToolStats(0, 0, 0)
    /\ exc = NoExc
    /\ delete_result = "none"

\* Before a filter is made: md5 is one of its tables.
InitFilter ==
    /\ NoRun
    /\ md5 \in Md5Tables
    /\ bloom_filter = NoFilter
    /\ added = {}
    /\ call = NoCall
    /\ params = NoParams
    /\ requests = NoRequests
    /\ line_no = 0
    /\ yielded = << >>
    /\ crawl = NoCrawl
    /\ fetch = NoFetch
    /\ load = NoLoad

\* Neither a parse run nor a filter.
InitParams == NoRun /\ NoFilters

\* BloomFilter(size, hash_count), lines 15-26.
BloomFilterInit(size, hash_count) ==
    /\ bloom_filter = NoFilter
    /\ bloom_filter' = BloomFilter(size, hash_count)
    /\ call' = Call("init", NoItem, FALSE, "none")
    /\ UNCHANGED << pipeline, crawl, fetch, load, md5, added, params,
                    requests, line_no, yielded >>

\* bloom_filter.add(item), lines 39-46.
BloomFilterAdd(item) ==
    /\ bloom_filter # NoFilter
    /\ IF HashesRaise(bloom_filter)
       THEN /\ call' = Call("add", item, FALSE, "ZeroDivisionError")
            /\ UNCHANGED << bloom_filter, added >>
       ELSE /\ bloom_filter' = add(bloom_filter, item)
            /\ added' = added \cup {item}
            /\ call' = Call("add", item, FALSE, "none")
    /\ UNCHANGED << pipeline, crawl, fetch, load, md5, params, requests,
                    line_no, yielded >>

\* AfterCheck with a check that also marks the cells it looks at.
AfterCheck_marks(self, item) == add(self, item)

\* The filter after check(item): line 55 only reads self.bit_array.
AfterCheck(self, item) == self

\* bloom_filter.check(item), lines 48-55.
BloomFilterCheck(item) ==
    /\ bloom_filter # NoFilter
    /\ IF HashesRaise(bloom_filter)
       THEN /\ call' = Call("check", item, FALSE, "ZeroDivisionError")
            /\ UNCHANGED bloom_filter
       ELSE /\ call' = Call("check", item, check(bloom_filter, item), "none")
            /\ bloom_filter' = AfterCheck(bloom_filter, item)
    /\ UNCHANGED << pipeline, crawl, fetch, load, md5, added, params,
                    requests, line_no, yielded >>

\* BloomFilter.optimal_parameters(n, p), lines 57-69: a static method, it
\* needs no filter.
OptimalParameters(n, p) ==
    /\ params' = optimal_parameters(n, p)
    /\ UNCHANGED << pipeline, crawl, fetch, load, md5, bloom_filter, added,
                    call, requests, line_no, yielded >>

RECURSIVE AddAll(_, _)
\* The filter after add() of every item of a set.
AddAll(self, items) ==
    IF items = {}
    THEN self
    ELSE LET item == CHOOSE any \in items : TRUE
         IN  AddAll(add(self, item), items \ {item})

\* The md5 tables that differ only in the digest of item + "0".
OneHashTables ==
    { table \in Md5Tables :
        \A item \in Items, i \in HashIndexes : i > 0 => table[item, i] = 0 }

\* The inputs of the given format with `len` entries.
RequestsOf(input_format, len) ==
    { [input_format |-> input_format, entries |-> entries] :
        entries \in [1 .. len -> Entries(input_format)] }

\* load_requests is called with no filter, or with a filter of at most one
\* hash function to which some items were added, on an input of up to
\* MaxLines entries.
InitCrawl ==
    /\ NoRun
    /\ md5 \in OneHashTables
    /\ \/ bloom_filter = NoFilter /\ added = {}
       \/ \E size \in 1 .. MaxSize, hash_count \in {0, 1} :
              \E items \in SUBSET Items :
                  /\ bloom_filter = AddAll(BloomFilter(size, hash_count), items)
                  /\ added = items
    /\ call = NoCall
    /\ params = NoParams
    /\ \E input_format \in InputFormats, len \in 0 .. MaxLines :
           requests \in RequestsOf(input_format, len)
    /\ line_no = 0
    /\ yielded = << >>
    /\ crawl = NoCrawl
    /\ fetch = NoFetch
    /\ load = NoLoad

\* Whether load_requests finds a URL in an entry: every line of a text or
\* JSONL input is one; an Avro record needs the "url" field (line 200).
HasUrl(entry) == requests.input_format # "avro" \/ entry.has_url

\* Skips with a filter that is never asked.
Skips_always(url) == bloom_filter # NoFilter

\* The negation of lines 180, 192 and 204: a filter was given and the key
\* of the URL checks true in it.
Skips(url) ==
    /\ bloom_filter # NoFilter
    /\ check(bloom_filter, bloom_filter_key(url))

\* Lines 173-207: load_requests reads the next entry and yields its URL
\* unless the filter holds it.
LoadRequestsNext ==
    /\ requests # NoRequests
    /\ line_no < Len(requests.entries)
    /\ LET entry == requests.entries[line_no + 1]
       IN  yielded' = IF HasUrl(entry) /\ ~Skips(entry.url)
                      THEN Append(yielded, entry.url)
                      ELSE yielded
    /\ line_no' = line_no + 1
    /\ UNCHANGED << pipeline, crawl, fetch, load, md5, bloom_filter, added,
                    call, params, requests >>

BloomFilterInits ==
    \E size \in 0 .. MaxSize, hash_count \in 0 .. MaxHashCount :
        BloomFilterInit(size, hash_count)

BloomFilterAdds == \E item \in Items : BloomFilterAdd(item)

BloomFilterChecks == \E item \in Items : BloomFilterCheck(item)

OptimalParametersCalls ==
    \E n \in 1 .. MaxN, p \in Probabilities : OptimalParameters(n, p)

NextFilter ==
    \/ BloomFilterInits
    \/ BloomFilterAdds
    \/ BloomFilterChecks

\* One filter is made and then added to and asked, under every md5 table.
SpecFilter == InitFilter /\ [][NextFilter]_vars

\* optimal_parameters is called, any number of times.
SpecParams == InitParams /\ [][OptimalParametersCalls]_vars

\* load_requests runs through one input.

SpecCrawl == InitCrawl /\ [][LoadRequestsNext]_vars

(***************************************************************************)
(* CrawlTool.crawl (src/rubbernecker/crawl/tool.py, lines 209-401), run    *)
(* with interactive = False: the loop over the requests and, for each      *)
(* request, the `while True` loop of lines 271-400.  The browser and the   *)
(* site are the environment: an iteration either gets a page or raises,    *)
(* and when it raised the browser is either dead or alive.  first_request  *)
(* only chooses between two ways of navigating and is left out.            *)
(***************************************************************************)

\* crawl is called with num_urls requests to make, no parse run.
InitRetry ==
    /\ NoRun
    /\ md5 = NoDigests
    /\ bloom_filter = NoFilter
    /\ added = {}
    /\ call = NoCall
    /\ params = NoParams
    /\ requests = NoRequests
    /\ line_no = 0
    /\ yielded = << >>
    /\ fetch = NoFetch
    /\ load = NoLoad
    /\ \E num_urls \in 1 .. MaxUrls, max_depth \in 0 .. MaxDepth,
          max_retries \in 0 .. MaxRetries, max_errors \in 0 .. MaxErrors,
          crawl_actions \in BOOLEAN :
           crawl = Crawl("next", num_urls, max_depth, max_retries,
                         max_errors, crawl_actions)

\* Lines 254-269: the next request; count it and reset the locals.
CrawlNextUrl ==
    /\ crawl.pc = "next"
    /\ crawl.url_no < crawl.num_urls
    /\ crawl' = [crawl EXCEPT !.pc = "try",
                              !.url_no = @ + 1,
                              !.stats.count_input = @ + 1,
                              !.depth = 0,
                              !.retries = 0,
                              !.crawling = FALSE,
                              !.attempts = 0]
    /\ UNCHANGED << pipeline, filters, fetch, load >>

\* Line 401: the requests are used up.
CrawlReturn ==
    /\ crawl.pc = "next"
    /\ crawl.url_no = crawl.num_urls
    /\ crawl' = [crawl EXCEPT !.pc = "returned"]
    /\ UNCHANGED << pipeline, filters, fetch, load >>

\* What crawl_actions.run(sb.driver), line 351, can do: return True or
\* False, or raise.
RunOutcomes == {"true", "false", "raise"}

\* Lines 272-361, an iteration in which the page is got: append it, count
\* it, and go on to the next request at max_depth, without crawl actions
\* or when they return False; stay in the loop when they return True.
CrawlPage ==
    /\ crawl.pc = "try"
    /\ crawl.attempts < MaxAttempts
    /\ LET got == [crawl EXCEPT
                      !.written = Append(@, CrawlRecord(crawl.url_no, FALSE)),
                      !.stats.count_output = @ + 1,
                      !.attempts = @ + 1]
       IN  IF crawl.depth >= crawl.max_depth
           THEN crawl' = [got EXCEPT !.pc = "next"]
           ELSE IF crawl.crawl_actions
                THEN \E ran \in RunOutcomes :
                         crawl' = [got EXCEPT
                                      !.depth = @ + 1,
                                      !.crawling = TRUE,
                                      !.pc = CASE ran = "true"  -> "try"
                                               [] ran = "false" -> "next"
                                               [] ran = "raise" -> "except"]
                ELSE crawl' = [got EXCEPT !.depth = @ + 1, !.pc = "next"]
    /\ UNCHANGED << pipeline, filters, fetch, load >>

\* Lines 272-326, an iteration that raises before the page is appended.
CrawlRaise ==
    /\ crawl.pc = "try"
    /\ crawl.attempts < MaxAttempts
    /\ crawl' = [crawl EXCEPT !.pc = "except", !.attempts = @ + 1]
    /\ UNCHANGED << pipeline, filters, fetch, load >>

\* Lines 367-374: the browser died; restart it and `continue`.
CrawlRestart ==
    /\ crawl.pc = "except"
    /\ crawl' = [crawl EXCEPT !.pc = "try"]
    /\ UNCHANGED << pipeline, filters, fetch, load >>

\* Lines 391-400, with count_error already counted: raise at max_errors
\* (None and 0 both switch the test off), break when retries has reached
\* max_retries, else go round the loop again.
\* Lines 389-397 with the limit tested by > : one more error is let through.
AfterError_above(c, count_error) ==
    IF c.max_errors # 0 /\ count_error > c.max_errors
    THEN "raised"
    ELSE IF c.retries >= c.max_retries THEN "next" ELSE "try"

AfterError(c, count_error) ==
    IF c.max_errors # 0 /\ count_error >= c.max_errors
    THEN "raised"
    ELSE IF c.retries >= c.max_retries THEN "next" ELSE "try"

\* Lines 376-400: the browser is alive; append an error record, count it
\* and decide how to go on.  No line increments retries.
CrawlError ==
    /\ crawl.pc = "except"
    /\ crawl' = [crawl EXCEPT
                    !.written = Append(@, CrawlRecord(crawl.url_no, TRUE)),
                    !.stats.count_error = @ + 1,
                    !.pc = AfterError(crawl, crawl.stats.count_error + 1)]
    /\ UNCHANGED << pipeline, filters, fetch, load >>

CrawlNext ==
    \/ CrawlNextUrl
    \/ CrawlReturn
    \/ CrawlPage
    \/ CrawlRaise
    \/ CrawlRestart
    \/ CrawlError

\* Calls of crawl, each followed for MaxAttempts iterations per request.
SpecRetry == InitRetry /\ [][CrawlNext]_vars

(***************************************************************************)
(* FetchTool.fetch (src/rubbernecker/fetch/tool.py, lines 72-157), called  *)
(* without force: every URL of the input is submitted to a thread pool of  *)
(* `parallelism` threads, each call of fetch_url gets its URL, asks the    *)
(* one filter that fetch loaded (check), writes the content and adds the   *)
(* path to that filter (add).  A URL is represented by its path, the key   *)
(* given to the filter; the position of a call of fetch_url is             *)
(*   "submitted"  waiting for a thread of the pool,                        *)
(*   "get"        in requests.get (lines 80-85),                           *)
(*   "check"      in bloom_filter.check (line 91),                         *)
(*   "write"      writing the content (lines 95-97),                       *)
(*   "add"        in bloom_filter.add (line 100),                          *)
(*   "failed", "skipped", "fetched"  returned, not yet collected,          *)
(*   "collected"  counted by the loop of lines 137-151.                    *)
(***************************************************************************)

\* fetch is called on up to MaxFetchUrls URLs with the filter that
\* load_bloom_filter returned: none, or one holding some paths.
InitFetch ==
    /\ NoRun
    /\ md5 \in OneHashTables
    /\ \/ bloom_filter = NoFilter /\ added = {}
       \/ \E size \in 1 .. MaxSize, items \in SUBSET Items :
              /\ items # {}
              /\ bloom_filter = AddAll(BloomFilter(size, 1), items)
              /\ added = items
    /\ call = NoCall
    /\ params = NoParams
    /\ requests = NoRequests
    /\ line_no = 0
    /\ yielded = << >>
    /\ crawl = NoCrawl
    /\ load = NoLoad
    /\ \E parallelism \in 1 .. MaxParallelism, n \in 0 .. MaxFetchUrls :
           \E paths \in [1 .. n -> Items] :
               fetch = Fetch("pool", parallelism, paths)

Tasks == DOMAIN fetch.paths

\* The calls of fetch_url that a thread of the pool is running.
Running ==
    { t \in Tasks : fetch.task[t] \in {"get", "check", "write", "add"} }

\* The calls of fetch_url that are inside a method of the filter.
InFilter == { t \in Tasks : fetch.task[t] \in {"check", "add"} }

\* Where a call of fetch_url goes to use the filter, or else: lines 91 and
\* 99 use it when one was loaded.
WithFilter(position, otherwise) ==
    IF bloom_filter # NoFilter THEN position ELSE otherwise

\* Lines 129-135: a free thread of the pool takes the work item submitted
\* first.
FetchStart(t) ==
    /\ fetch.pc = "pool"
    /\ fetch.task[t] = "submitted"
    /\ \A u \in Tasks : u < t => fetch.task[u] # "submitted"
    /\ Cardinality(Running) < fetch.parallelism
    /\ fetch' = [fetch EXCEPT !.task[t] = "get"]
    /\ UNCHANGED << pipeline, filters, crawl, load >>

\* Lines 79-90 and 105-107: the request succeeds, or raises and fetch_url
\* returns (False, False).
FetchGet(t) ==
    /\ fetch.task[t] = "get"
    /\ \E position \in {WithFilter("check", "write"), "failed"} :
           fetch' = [fetch EXCEPT !.task[t] = position]
    /\ UNCHANGED << pipeline, filters, crawl, load >>

\* Lines 91-93: bloom_filter.check(path) returns; True skips the URL.
FetchCheck(t) ==
    /\ fetch.task[t] = "check"
    /\ fetch' = [fetch EXCEPT !.task[t] =
                     IF check(bloom_filter, fetch.paths[t])
                     THEN "skipped"
                     ELSE "write"]
    /\ UNCHANGED << pipeline, filters, crawl, load >>

\* Lines 95-99: the content is written under the path.
FetchWrite(t) ==
    /\ fetch.task[t] = "write"
    /\ fetch' = [fetch EXCEPT !.task[t] = WithFilter("add", "fetched"),
                              !.written = Append(@, fetch.paths[t])]
    /\ UNCHANGED << pipeline, filters, crawl, load >>

\* Lines 100-103: bloom_filter.add(path) returns, and fetch_url returns
\* (True, False).
FetchAdd(t) ==
    /\ fetch.task[t] = "add"
    /\ bloom_filter' = add(bloom_filter, fetch.paths[t])
    /\ added' = added \cup {fetch.paths[t]}
    /\ fetch' = [fetch EXCEPT !.task[t] = "fetched"]
    /\ UNCHANGED << pipeline, crawl, load, md5, call, params, requests,
                    line_no, yielded >>

\* Lines 137-151: the caller counts a call of fetch_url that returned.
FetchResult(t) ==
    /\ fetch.task[t] \in {"failed", "skipped", "fetched"}
    /\ LET result == fetch.task[t]
           counted == [fetch.stats EXCEPT !.count_input = @ + 1]
       IN  fetch' = [fetch EXCEPT
                        !.task[t] = "collected",
                        !.stats =
                            CASE result = "failed" ->
                                     [counted EXCEPT !.count_error = @ + 1]
                              [] result = "skipped" ->
                                     [counted EXCEPT !.count_skipped = @ + 1]
                              [] result = "fetched" ->
                                     [counted EXCEPT !.count_output = @ + 1]]
    /\ UNCHANGED << pipeline, filters, crawl, load >>

\* Line 157: every call was counted.
FetchReturn ==
    /\ fetch.pc = "pool"
    /\ \A t \in Tasks : fetch.task[t] = "collected"
    /\ fetch' = [fetch EXCEPT !.pc = "returned"]
    /\ UNCHANGED << pipeline, filters, crawl, load >>

FetchStarts == \E t \in Tasks : FetchStart(t)

FetchGets == \E t \in Tasks : FetchGet(t)

FetchChecks == \E t \in Tasks : FetchCheck(t)

FetchWrites == \E t \in Tasks : FetchWrite(t)

FetchAdds == \E t \in Tasks : FetchAdd(t)

FetchResults == \E t \in Tasks : FetchResult(t)

FetchNext ==
    \/ FetchStarts
    \/ FetchGets
    \/ FetchChecks
    \/ FetchWrites
    \/ FetchAdds
    \/ FetchResults
    \/ FetchReturn

\* Calls of fetch, the threads of the pool taking their steps in any order.
SpecFetch == InitFetch /\ [][FetchNext]_vars

(***************************************************************************)
(* CrawlTool.load_bloom_filter (src/rubbernecker/crawl/tool.py, lines      *)
(* 126-151).  The filter that BloomFilter() builds by default is           *)
(* represented by one of 1 .. MaxSize cells and one hash function.         *)
(***************************************************************************)

PriorRecords ==
    { PriorRecord(FALSE, CHOOSE url \in Urls : TRUE, error) :
        error \in {"null", "set"} }
    \cup { PriorRecord(TRUE, url, error) :
             url \in Urls, error \in {"null", "set"} }

\* load_bloom_filter is called on an output url: nothing is there, or the
\* files there hold up to MaxPriorRecords records.
InitLoad ==
    /\ NoRun
    /\ md5 \in OneHashTables
    /\ bloom_filter = NoFilter
    /\ added = {}
    /\ call = NoCall
    /\ params = NoParams
    /\ requests = NoRequests
    /\ line_no = 0
    /\ yielded = << >>
    /\ crawl = NoCrawl
    /\ fetch = NoFetch
    /\ \/ load = Load(FALSE, << >>)
       \/ \E n \in 0 .. MaxPriorRecords :
              \E records \in [1 .. n -> PriorRecords] :
                  load = Load(TRUE, records)

\* The test of lines 139-143 without its look at the error field.
Loads_ignores_error(record) == record.has_url

\* Lines 139-143: the record has a url and its error is None.
Loads(record) == record.has_url /\ record.error = "null"

\* Lines 133-135 and 151: without an output None is returned, with one a
\* filter is built.
LoadExists ==
    /\ load.pc = "exists"
    /\ IF load.exists
       THEN /\ \E size \in 1 .. MaxSize :
                   bloom_filter' = BloomFilter(size, 1)
            /\ load' = [load EXCEPT !.pc = "read"]
       ELSE /\ load' = [load EXCEPT !.pc = "returned", !.returned = "None"]
            /\ UNCHANGED bloom_filter
    /\ UNCHANGED << pipeline, crawl, fetch, md5, added, call, params,
                    requests, line_no, yielded >>

\* Lines 136-145: the next record is read, and its key added and counted
\* when it loads.
LoadRecord ==
    /\ load.pc = "read"
    /\ load.line_no < Len(load.records)
    /\ LET record == load.records[load.line_no + 1]
       IN  IF Loads(record)
           THEN /\ bloom_filter' =
                       add(bloom_filter, bloom_filter_key(record.url))
                /\ added' = added \cup {bloom_filter_key(record.url)}
                /\ load' = [load EXCEPT !.line_no = @ + 1, !.count = @ + 1]
           ELSE /\ load' = [load EXCEPT !.line_no = @ + 1]
                /\ UNCHANGED << bloom_filter, added >>
    /\ UNCHANGED << pipeline, crawl, fetch, md5, call, params, requests,
                    line_no, yielded >>

\* Lines 146-151: the filter is returned when a key was counted, else None.
LoadReturn ==
    /\ load.pc = "read"
    /\ load.line_no = Len(load.records)
    /\ IF load.count > 0
       THEN /\ load' = [load EXCEPT !.pc = "returned", !.returned = "filter"]
            /\ UNCHANGED bloom_filter
       ELSE /\ load' = [load EXCEPT !.pc = "returned", !.returned = "None"]
            /\ bloom_filter' = NoFilter
    /\ UNCHANGED << pipeline, crawl, fetch, md5, added, call, params,
                    requests, line_no, yielded >>

LoadNext ==
    \/ LoadExists
    \/ LoadRecord
    \/ LoadReturn

\* Calls of load_bloom_filter.
SpecLoad == InitLoad /\ [][LoadNext]_vars

(***************************************************************************)
(* Properties                                                              *)
(***************************************************************************)

\* parse_parallel returned a ParseToolStats to its caller.
Returned == cpc = "returned"

\* Some worker could not build its parser (lines 53-57).
ConstructionFailed == \E w \in Workers : parser[w] = "error"

Records == 1 .. Len(input)

AllOfKinds(kinds) == \A i \in Records : input[i].kind \in kinds

\* The input records on which the parser raises.
Failing == { i \in Records : ParseRaises(input[i]) }

\* Whether the output container holds the given record.
InOutput(parsed_record) ==
    \E j \in 1 .. Len(output.records) : output.records[j] = parsed_record

\* C1: when a run over M records, each parsed into exactly one output
\* record by workers that all built their parser, returns, its stats are
\* count_input = M, count_output = M, count_error = 0 and the output
\* container holds exactly the M records parsed, in some order.
C1_AllSucceed ==
    (Returned /\ AllOfKinds({"one"}) /\ ~ConstructionFailed) =>
        /\ stats = ParseToolStats(Len(input), Len(input), 0)
        /\ output.exists
        /\ Len(output.records) = Len(input)
        /\ \A i \in Records : InOutput(Out(input[i], 1))

\* A returned two-worker run of C1 that wrote the second record first.
C1_Witness ==
    /\ Returned
    /\ AllOfKinds({"one"})
    /\ ~ConstructionFailed
    /\ num_workers = 2
    /\ Len(input) >= 2
    /\ output.records[1] = Out(input[2], 1)

\* C2: when a run over M records returns, with a parser that raises on
\* some records and yields one record on the others, count_error is the
\* number of records it raised on, count_output is M - count_error, and no
\* record parsed from a failed input is in the output container.
C2_ErrorCounts ==
    (Returned /\ AllOfKinds({"one", "fail", "part"}) /\ ~ConstructionFailed) =>
        /\ stats.count_error = Cardinality(Failing)
        /\ stats.count_output = Len(input) - stats.count_error
        /\ \A j \in 1 .. Len(output.records) :
               (output.records[j].src + 1) \notin Failing

\* C2 for parsers that raise before their first yield: there the counts
\* do come out as C2 states.
C2_RaiseBeforeYield ==
    (Returned /\ AllOfKinds({"one", "fail"}) /\ ~ConstructionFailed) =>
        /\ stats.count_error = Cardinality(Failing)
        /\ stats.count_output = Len(input) - stats.count_error
        /\ \A j \in 1 .. Len(output.records) :
               (output.records[j].src + 1) \notin Failing

\* Worker w puts the result of a failed record on result_queue.
PutsFailure(w) ==
    /\ wpc[w] = "put"
    /\ pending[w].msg_type = "result"
    /\ pending[w].task_stats.count_error = 1
    /\ result_queue' = Append(result_queue, pending[w])

\* C3: a worker that has sent the result of a failed record is back at the
\* head of its loop, about to take the next task, and a run that returns
\* has processed every input record whatever number of them failed.
C3_FailureIsolated ==
    /\ [][\A w \in Workers : PutsFailure(w) => wpc'[w] = "get"]_vars
    /\ []((Returned /\ ~ConstructionFailed) =>
            /\ stats.count_input = Len(input)
            /\ stats.count_error = Cardinality(Failing))

\* The only worker of a run holds the result of the task that followed a
\* failed one.
C3_Witness ==
    /\ num_workers = 1
    /\ Len(input) >= 2
    /\ ParseRaises(input[1])
    /\ wpc[0] = "put"
    /\ pending[0].msg_type = "result"
    /\ pending[0].seq_id = 1

\* Every worker left its loop through a poison pill, and nothing is left
\* on the work queue.
WorkersDrained ==
    /\ \A w \in Workers : wpc[w] = "exited" /\ parser[w] = "loaded"
    /\ work_queue = << >>

InterruptedAfterSpawn == interrupted /\ wrpc # "unborn"

\* The interruption has reached the caller of parse_parallel.
InterruptRaised == interrupted /\ cpc = "raised"

\* C5: once the interruption of a run whose processes were all spawned has
\* reached the caller, the output container of the run does not exist.
C5_NoPartialOutput ==
    (InterruptRaised /\ InterruptedAfterSpawn) => ~output.exists

\* C6: an interrupted run never returns a stats value; what it raises is
\* the KeyboardInterrupt, also when deleting the output failed; and under
\* fair scheduling the interruption does reach the caller.
C6_InterruptReRaised ==
    /\ [](interrupted => ~Returned)
    /\ []((interrupted /\ cpc = "raised") => exc.type = "KeyboardInterrupt")
    /\ (interrupted ~> InterruptRaised)

\* The interruption reached the caller although the delete failed on an
\* output container that the writer had created.
C6_Witness ==
    /\ InterruptRaised
    /\ exc.type = "KeyboardInterrupt"
    /\ delete_result = "error"
    /\ output.exists

\* C7: once the interruption has reached the caller, no worker process and
\* no writer process of the run is alive.
C7_AllTerminated ==
    InterruptRaised =>
        /\ \A w \in Workers : ~IsAlive(wpc[w])
        /\ ~IsAlive(wrpc)

\* C8: work_queue and result_queue never hold more than
\* max(100, num_workers * 10) items, and while work_queue holds that many
\* the only step that changes it is a worker taking its first item, so the
\* coordinator's put waits for a worker's get.
C8_QueuesBounded ==
    /\ [](/\ Len(work_queue) <= Max(100, num_workers * 10)
          /\ Len(result_queue) <= Max(100, num_workers * 10))
    /\ [][(/\ Len(work_queue) = Max(100, num_workers * 10)
           /\ work_queue' # work_queue) =>
              /\ work_queue' = Tail(work_queue)
              /\ \E w \in Workers : wpc[w] = "get" /\ wpc'[w] = "put"]_vars

\* The coordinator has records left to queue and work_queue is full.
C8_Witness ==
    /\ cpc = "produce"
    /\ record_count < Len(input)
    /\ Len(work_queue) = Max(100, num_workers * 10)

\* Worker w is not ready: it has not built its parser, or has exited.
NotReady(w) == ~(IsAlive(wpc[w]) /\ parser[w] = "loaded")

\* The coordinator completes its check of the workers (lines 256-260).
CheckStep == cpc = "check" /\ cpc' # "check" /\ ~interrupted'

\* The run failed at startup naming the workers in `failed`, with no
\* record read or queued, no writer started and no output container.
StartupFailure(failed) ==
    /\ cpc' = "raised"
    /\ exc' = [type |-> "RuntimeError", dead_workers |-> failed]
    /\ record_count' = 0
    /\ work_queue' = << >>
    /\ wrpc' = "unborn"
    /\ ~output'.exists

\* C9 as claimed: if some worker is not ready when the grace period ends,
\* the run fails with a startup error naming the workers that are not
\* ready, before any record is read or queued, and produces no output.
C9_NotReadyFails ==
    [][(CheckStep /\ \E w \in Workers : NotReady(w)) =>
          StartupFailure({ w \in Workers : NotReady(w) })]_vars

\* C9 as the code has it: if some worker process has exited when the
\* coordinator checks after the grace period, the run fails with a startup
\* error naming exactly the exited workers, before any record is read or
\* queued and before the writer is started, so that it produces no output;
\* if none has exited the run goes on, ready or not; and a run that failed
\* so stays without records read, writer or output.
C9_DeadFails ==
    /\ [][CheckStep =>
            LET exited == { w \in Workers : wpc[w] = "exited" }
            IN  IF exited # {}
                THEN StartupFailure(exited)
                ELSE cpc' = "start_writer" /\ exc' = NoExc]_vars
    /\ [](exc.type = "RuntimeError" =>
            /\ cpc = "raised"
            /\ exc.dead_workers # {}
            /\ record_count = 0
            /\ work_queue = << >>
            /\ wrpc = "unborn"
            /\ ~output.exists)

\* A two-worker run failed at startup naming worker 1 alone.
C9_Witness ==
    /\ cpc = "raised"
    /\ exc = [type |-> "RuntimeError", dead_workers |-> {1}]
    /\ num_workers = 2
    /\ parser[1] = "error"

\* The positions of work_queue that hold a task, and the seq_ids there.
TaskPositions ==
    { j \in 1 .. Len(work_queue) : work_queue[j] # POISON_PILL }

TaskIds == { work_queue[j][1] : j \in TaskPositions }

\* The workers that hold the result of a task, and the seq_ids they hold.
Attempting == { w \in Workers : pending[w].msg_type = "result" }

AttemptedIds == { pending[w].seq_id : w \in Attempting }

\* The positions of result_queue that hold a result, and their seq_ids.
ResultPositions ==
    { j \in 1 .. Len(result_queue) : result_queue[j].msg_type = "result" }

ResultIds == { result_queue[j].seq_id : j \in ResultPositions }

NoneKilled == wrpc # "killed" /\ \A w \in Workers : wpc[w] # "killed"

\* C10: every task the coordinator queued is in exactly one place: still
\* on work_queue, held by exactly one worker, as one result on
\* result_queue, or counted once by the writer.  No seq_id occurs twice on
\* a queue or with two workers, and unless a process was killed the places
\* add up to the number of tasks queued.
C10_ExactlyOnce ==
    /\ Cardinality(TaskIds) = Cardinality(TaskPositions)
    /\ Cardinality(AttemptedIds) = Cardinality(Attempting)
    /\ Cardinality(ResultIds) = Cardinality(ResultPositions)
    /\ TaskIds \cap AttemptedIds = {}
    /\ TaskIds \cap ResultIds = {}
    /\ AttemptedIds \cap ResultIds = {}
    /\ Cardinality(TaskPositions) + Cardinality(Attempting)
         + Cardinality(ResultPositions) + shared_stats.count_input
           <= record_count
    /\ NoneKilled =>
         Cardinality(TaskPositions) + Cardinality(Attempting)
           + Cardinality(ResultPositions) + shared_stats.count_input
             = record_count

\* Two workers hold the results of two tasks at the same time.
C10_Witness ==
    /\ num_workers = 2
    /\ Attempting = {0, 1}
    /\ pending[0].seq_id # pending[1].seq_id

\* A step of the writer process: it stands in writer_process, and neither
\* the coordinator nor a worker moves.
WriterStep == wrpc \in {"open", "loop"} /\ cpc' = cpc /\ wpc' = wpc

\* C11: the shared stats counters change only in steps of the writer
\* process; the output container is created and appended to only in steps
\* of the writer process, and the one other step that touches it is the
\* coordinator's delete in the interrupt handler, which appends nothing.
C11_SingleWriter ==
    /\ [][shared_stats' # shared_stats => WriterStep]_vars
    /\ [][output' # output =>
            \/ WriterStep
            \/ cpc = "int_delete" /\ output' = NoOutput]_vars

\* The writer of a two-worker run has counted and written two results.
C11_Witness ==
    /\ num_workers = 2
    /\ wrpc = "loop"
    /\ shared_stats.count_input = 2
    /\ Len(output.records) >= 2

\* The latest call on the filter was check(item) and it returned.
Checked == call.op = "check" /\ call.raised = "none"

\* C12: every item that add() was called with checks true in the filter,
\* whatever was added or checked since, and a check() of such an item
\* returns True.
C12_NoFalseNegatives ==
    /\ \A item \in added : check(bloom_filter, item)
    /\ (call.op = "check" /\ call.item \in added) =>
           call.result /\ call.raised = "none"

\* A check of the item added first returned after the other item was
\* added too, in a filter of two cells and two hash functions where the
\* two items do not share all their cells.
C12_Witness ==
    /\ Checked
    /\ call.result
    /\ added = Items
    /\ bloom_filter.size = 2
    /\ bloom_filter.hash_count = 2
    /\ \E item \in Items :
           /\ item # call.item
           /\ { md5[item, i] % 2 : i \in HashIndexes }
                  # { md5[call.item, i] % 2 : i \in HashIndexes }

\* The cells of an item: cell md5(item + str(i)) % size for each of the
\* hash_count values of i.
CellsOf(item) ==
    { md5[item, i] % bloom_filter.size :
        i \in 0 .. (bloom_filter.hash_count - 1) }

\* C13: a check() that returns gives True exactly when every cell of the
\* item is 1 in the bit array and False otherwise, and when it gives False
\* the item was never added to the filter.
C13_CheckIsAllSet ==
    Checked =>
        /\ call.result =
               (\A cell \in CellsOf(call.item) :
                    bloom_filter.bit_array[cell] = 1)
        /\ ~call.result => call.item \notin added

\* A check returned False for an item of which one cell is set, by the
\* other item, and one is not.
C13_Witness ==
    /\ Checked
    /\ ~call.result
    /\ added # {}
    /\ \E cell \in CellsOf(call.item) : bloom_filter.bit_array[cell] = 1
    /\ \E cell \in CellsOf(call.item) : bloom_filter.bit_array[cell] = 0

\* optimal_parameters was called.
ParamsGiven == params # NoParams

\* C14: optimal_parameters(n, p) returns a size above 0 and a hash count
\* of at least 1, for every n > 0 and every p between 0 and 1.
C14_PositiveParameters ==
    ParamsGiven => params.size > 0 /\ params.hash_count >= 1

\* C15 as claimed: for the same n, optimal_parameters returns a larger
\* size for p than for any larger probability.
C15_SmallerPLargerSize ==
    ParamsGiven =>
        \A p \in Probabilities :
            params.p < p => params.size > optimal_parameters(params.n, p).size

\* C15 as the code has it: for the same n, the size optimal_parameters
\* returns for p is never smaller than the one it returns for a larger
\* probability.
C15_SmallerPNotSmallerSize ==
    ParamsGiven =>
        \A p \in Probabilities :
            params.p < p => params.size >= optimal_parameters(params.n, p).size

\* optimal_parameters(1, 0.9) gave the size that (1, 0.99) gives, and a
\* smaller one than (1, 0.1) gives.
C15_Witness ==
    /\ params.n = 1
    /\ params.p = 900
    /\ params.size = optimal_parameters(1, 990).size
    /\ params.size < optimal_parameters(1, 100).size

\* C17: no filter object has size 0: the constructor refuses it.
C17_ZeroSizeRejected ==
    bloom_filter # NoFilter => bloom_filter.size # 0

\* parse_parallel was called with no worker to start.
NoWorkers == cpc # "idle" /\ num_workers <= 0

\* C16: a run requested with num_workers <= 0 is refused before anything
\* happens: no writer process is started, no record is read or queued, no
\* output container is made and no stats are returned.
C16_NoWorkersRejected ==
    NoWorkers =>
        /\ wrpc = "unborn"
        /\ record_count = 0
        /\ ~output.exists
        /\ ~Returned

\* What the code does without workers, on a short input: it returns
\* stats of zero, with every record left on work_queue.
C16_ReturnsZeroStats ==
    (NoWorkers /\ Returned) =>
        /\ stats = ParseToolStats(0, 0, 0)
        /\ Len(work_queue) = Len(input)
        /\ output = [exists |-> TRUE, records |-> << >>]

\* What the code does without workers, on a long input: once work_queue
\* is full the coordinator waits in put() for a worker that does not
\* exist, and no step is left to take.
C16_BlocksOnFullQueue ==
    (NoWorkers /\ Len(input) > queue_maxsize /\ wrpc = "exited"
        /\ Len(work_queue) = queue_maxsize) =>
            /\ cpc = "produce"
            /\ ~ENABLED Next

\* The number of output records a parser that does not raise emits for a
\* record: a yielded None is not an output.
Emits(record) ==
    CASE record.kind = "one"  -> 1
      [] record.kind = "two"  -> 2
      [] record.kind = "zero" -> 0
      [] record.kind = "none" -> 0

RECURSIVE EmitsUpTo(_)
\* The outputs emitted for the first n input records together.
EmitsUpTo(n) == IF n = 0 THEN 0 ELSE EmitsUpTo(n - 1) + Emits(input[n])

\* The positions of the output container that hold records parsed from
\* the given input record.
OutputsOf(record) ==
    { j \in 1 .. Len(output.records) : output.records[j].src = record.id }

\* C18: when a run returns whose parser emits k_i outputs for record i
\* (0, 1 or 2) and never raises, count_input is M, count_output is the sum
\* of the k_i, count_error is 0, and the output container holds for each
\* input record exactly its k_i outputs and nothing else.
C18_EveryOutputWritten ==
    (Returned /\ AllOfKinds({"one", "two", "zero", "none"})
        /\ ~ConstructionFailed) =>
        /\ stats = ParseToolStats(Len(input), EmitsUpTo(Len(input)), 0)
        /\ output.exists
        /\ Len(output.records) = EmitsUpTo(Len(input))
        /\ \A i \in Records :
               /\ Cardinality(OutputsOf(input[i])) = Emits(input[i])
               /\ \A k \in 1 .. Emits(input[i]) : InOutput(Out(input[i], k))

\* A two-worker run over a record with one output, one with two and one
\* with none has returned, the outputs of the second record written
\* before the output of the first.
C18_Witness ==
    /\ Returned
    /\ ~ConstructionFailed
    /\ num_workers = 2
    /\ Len(input) = 3
    /\ input[1].kind = "one"
    /\ input[2].kind = "two"
    /\ input[3].kind = "zero"
    /\ stats.count_output = 3
    /\ output.records[1].src = input[2].id

\* The tasks that some worker has taken off work_queue.
Dequeued == record_count - Cardinality(TaskPositions)

ToYield(entry) ==
    /\ requests.input_format = "avro" => entry.has_url
    /\ \/ bloom_filter = NoFilter
       \/ ~check(bloom_filter, bloom_filter_key(entry.url))

RECURSIVE UrlsToYield(_)
\* The URLs to yield for the first n entries of the input, in input order.
UrlsToYield(n) ==
    IF n = 0
    THEN << >>
    ELSE IF ToYield(requests.entries[n])
         THEN Append(UrlsToYield(n - 1), requests.entries[n].url)
         ELSE UrlsToYield(n - 1)

\* load_requests was called.
Loading == requests # NoRequests

\* C20: at every point of load_requests, the URLs yielded so far are, in
\* input order, the URLs read so far whose key does not check true in the
\* filter given (a filter of at least one cell); no URL is yielded whose
\* key was added to the filter; and with no filter every URL read was
\* yielded.
C20_YieldsUnseen ==
    Loading =>
        /\ yielded = UrlsToYield(line_no)
        /\ \A j \in 1 .. Len(yielded) :
               bloom_filter_key(yielded[j]) \notin added
        /\ bloom_filter = NoFilter =>
               Len(yielded) =
                   Cardinality({ j \in 1 .. line_no :
                                   requests.entries[j].has_url })

\* load_requests has gone through a text input of two URLs with a filter
\* to which the key of the first was added in another spelling: it
\* skipped the first and yielded the second.
C20_Witness ==
    /\ Loading
    /\ requests.input_format = "text"
    /\ line_no = 2
    /\ Len(requests.entries) = 2
    /\ requests.entries[1].url.netloc = "A.IO"
    /\ added = { << "a.io", "/x", "" >> }
    /\ yielded = << requests.entries[2].url >>

\* The positions of work_queue that hold a poison pill.
PillPositions ==
    { j \in 1 .. Len(work_queue) : work_queue[j] = POISON_PILL }

\* The workers that took a poison pill: they built their parser and then
\* came to send "done".
TookPill ==
    { w \in Workers :
        /\ parser[w] = "loaded"
        /\ wpc[w] = "exited" \/ pending[w] = DoneMsg }

\* The coordinator has left the loop of lines 288-289 in the normal way.
PillsQueued == cpc \in {"join_workers", "join_writer", "returned"}

\* C22: a poison pill is put on work_queue only when every input record
\* has been put there, so that no task stands behind a pill; once the
\* coordinator is done with the pills, num_workers of them were queued,
\* each still on the queue or taken by a worker of its own; and a worker
\* that takes a pill takes nothing after it: it sends "done" and exits for
\* good.
C22_PillsLast ==
    /\ [](\A j \in PillPositions, k \in TaskPositions : k < j)
    /\ [](PillPositions # {} => record_count = Len(input))
    /\ []((PillsQueued /\ NoneKilled) =>
            Cardinality(PillPositions) + Cardinality(TookPill) = num_workers)
    /\ [][\A w \in Workers :
            /\ (wpc[w] = "get" /\ wpc'[w] # "get" /\ wpc'[w] # "killed"
                    /\ Head(work_queue) = POISON_PILL) =>
                   pending'[w] = DoneMsg /\ wpc'[w] = "put"
            /\ (pending[w] = DoneMsg /\ wpc'[w] # wpc[w]) =>
                   wpc'[w] \in {"exited", "killed"}
            /\ wpc[w] = "exited" => wpc'[w] = "exited"]_vars

\* Two pills stand behind a task on work_queue while both workers of the
\* run wait for their first task.
C22_Witness ==
    /\ num_workers = 2
    /\ Len(work_queue) = 3
    /\ work_queue[1] # POISON_PILL
    /\ work_queue[2] = POISON_PILL
    /\ work_queue[3] = POISON_PILL

\* The positions of result_queue that hold a "done" message.
DonePositions ==
    { j \in 1 .. Len(result_queue) : result_queue[j].msg_type = "done" }

\* The workers that ran worker_process to its end.
Exited == { w \in Workers : wpc[w] = "exited" }

\* Worker w puts "done" on result_queue.
PutsDone(w) ==
    /\ wpc[w] = "put"
    /\ pending[w] = DoneMsg
    /\ result_queue' = Append(result_queue, DoneMsg)

\* C23: the "done" messages sent so far, on result_queue or counted by
\* the writer, are one for each worker that has run to its end, so never
\* more than num_workers; a worker sends "done" as its last step and does
\* nothing after it; every step that sends "done" ends a worker; and when
\* the run returns every worker has sent its one "done".
C23_OneDonePerWorker ==
    /\ [](/\ Cardinality(DonePositions) + workers_done = Cardinality(Exited)
          /\ Cardinality(DonePositions) + workers_done <= num_workers)
    /\ [][/\ \A w \in Workers :
               /\ PutsDone(w) => wpc'[w] = "exited"
               /\ (wpc'[w] = "exited" /\ wpc[w] # "exited") => PutsDone(w)
               /\ wpc[w] = "exited" =>
                      wpc'[w] = "exited" /\ pending'[w] = pending[w]
           /\ Cardinality(DonePositions') > Cardinality(DonePositions) =>
                  \E v \in Workers : PutsDone(v)]_vars
    /\ [](Returned => Exited = Workers /\ workers_done = num_workers)

\* The first worker of a two-worker run has sent "done" behind its last
\* result, both still on result_queue, while the second worker works on.
C23_Witness ==
    /\ num_workers = 2
    /\ wpc[0] = "exited"
    /\ wpc[1] = "put"
    /\ pending[1].msg_type = "result"
    /\ Len(result_queue) = 2
    /\ result_queue[1].msg_type = "result"
    /\ result_queue[2].msg_type = "done"

\* The workers whose parser construction failed (lines 50-57).
FailedWorkers == { w \in Workers : parser[w] = "error" }

TakesFailure ==
    /\ wrpc = "loop"
    /\ result_queue # << >>
    /\ result_queue' = Tail(result_queue)
    /\ Head(result_queue).msg_type = "result"
    /\ Head(result_queue).task_stats.count_error = 1

\* C25: when the writer takes the result of a failed task it adds one to
\* count_input and one to count_error, leaves count_output as it is and
\* writes nothing, whatever the parser yielded before it raised.
C25_FailureCounts ==
    [][TakesFailure =>
          /\ shared_stats' = StatsAdd(shared_stats, ParseToolStats(1, 0, 1))
          /\ output' = output]_vars

\* The part of C25 that the code keeps: a failed task adds one to
\* count_input and to count_error and nothing is written for it.
C25_NothingWritten ==
    [][TakesFailure =>
          /\ shared_stats'.count_input = shared_stats.count_input + 1
          /\ shared_stats'.count_error = shared_stats.count_error + 1
          /\ output' = output]_vars

\* C26: while a run is not interrupted, and in the stats it returns,
\* count_output is the number of records in the output container.
C26_CountsWhatIsWritten ==
    /\ ~interrupted => shared_stats.count_output = Len(output.records)
    /\ Returned => stats.count_output = Len(output.records)

\* The part of C26 that the code keeps: count_output is never less than
\* the number of records written, and equal to it as long as no parse
\* raised after a yield.
C26_CountsAtLeastWritten ==
    ~interrupted =>
        /\ shared_stats.count_output >= Len(output.records)
        /\ (\A i \in Records : input[i].kind # "part") =>
               shared_stats.count_output = Len(output.records)

\* Lines 177-190 of the sequential ParseTool.parse for one record: each
\* yield that is not None is counted and appended as it comes, so what was
\* yielded before a raise is already in the output container; an append
\* that raises is caught like a raise of the parser, after line 184
\* counted the record.
ParseRecord(record) ==
    LET yields  == SelectSeq(ParseYields(record), IsNotNone)
        written == Appended(yields)
        counted == IF AppendRaises(yields)
                   THEN Len(written) + 1
                   ELSE Len(written)
        raised  == ParseRaises(record) \/ AppendRaises(yields)
    IN  [stats   |-> ParseToolStats(1, counted, IF raised THEN 1 ELSE 0),
         records |-> written]

RECURSIVE parse(_)

\* Lines 162-195: the sequential ParseTool.parse over a whole input, as
\* the stats it returns and the records it leaves in the output.
parse(records) ==
    IF records = << >>
    THEN [stats |-> ParseToolStats(0, 0, 0), records |-> << >>]
    ELSE LET n      == Len(records)
             before == parse(SubSeq(records, 1, n - 1))
             last   == ParseRecord(records[n])
         IN  [stats   |-> StatsAdd(before.stats, last.stats),
              records |-> before.records \o last.records]

\* Two sequences hold the same records the same number of times.
SameRecords(s, t) ==
    /\ Len(s) = Len(t)
    /\ \A i \in 1 .. Len(s) :
           Cardinality({ j \in 1 .. Len(s) : s[j] = s[i] }) =
               Cardinality({ j \in 1 .. Len(t) : t[j] = s[i] })

\* C27: a parallel run in which every worker built its parser returns
\* the stats that the sequential parse returns for the same input, and
\* leaves the same records in the output, in whatever order.
C27_SequentialEqualsParallel ==
    (Returned /\ ~ConstructionFailed) =>
        /\ stats = parse(input).stats
        /\ SameRecords(output.records, parse(input).records)

\* The part of C27 that the code keeps: the stats are always equal, and
\* the outputs are equal for inputs on which parse never raises after a
\* yield.
C27_EqualStats ==
    (Returned /\ ~ConstructionFailed) =>
        /\ stats = parse(input).stats
        /\ (\A i \in Records : input[i].kind # "part") =>
               SameRecords(output.records, parse(input).records)

\* The run was aborted by the startup check of lines 255-260.
StartupFailed == cpc = "raised" /\ exc.type = "RuntimeError"

\* C29: once the startup error has reached the caller, no worker process
\* of the run is alive.
C29_NoWorkerLeftAlive ==
    StartupFailed => \A w \in Workers : ~IsAlive(wpc[w])

\* What the code does ensure after a startup error: the workers it names
\* are dead, and a worker left alive ends up waiting on the empty
\* work_queue, which nothing will ever fill.
C29_LeftAliveWaits ==
    StartupFailed =>
        /\ \A w \in exc.dead_workers : ~IsAlive(wpc[w])
        /\ work_queue = << >>
        /\ wrpc = "unborn"

\* The results a worker sends for the task numbered seq_id: the yields of
\* its record that are not None, in the order parse made them, or nothing
\* when parse raised.
ResultsOf(seq_id) ==
    IF ParseRaises(input[seq_id + 1])
    THEN << >>
    ELSE SelectSeq(ParseYields(input[seq_id + 1]), IsNotNone)

\* The result messages on their way to the writer.
ResultsInFlight ==
    { result_queue[j] : j \in 1 .. Len(result_queue) \ DonePositions } \cup
    { pending[w] : w \in { v \in Workers : pending[v].msg_type = "result" } }

\* The writer takes a result message.
TakesResult ==
    /\ wrpc = "loop"
    /\ result_queue # << >>
    /\ result_queue' = Tail(result_queue)
    /\ Head(result_queue).msg_type = "result"

\* C30: every result message carries the records of its task in the
\* order parse yielded them, and the writer, taking the message at the
\* head of result_queue, puts exactly these records, in that order and
\* unbroken, behind the records it has written so far: the output is in
\* dequeue order, whatever the seq_id.
C30_AppendsInDequeueOrder ==
    /\ [](\A msg \in ResultsInFlight : msg.results = ResultsOf(msg.seq_id))
    /\ [][(TakesResult /\ output.exists /\ output'.exists) =>
             output'.records =
                 output.records \o ResultsOf(Head(result_queue).seq_id)]_vars

\* Two workers: both records of the second task were written, unbroken
\* and in order, before the record of the first task.
C30_Witness ==
    /\ Len(input) = 2
    /\ output.exists
    /\ output.records =
           << Out(input[2], 1), Out(input[2], 2), Out(input[1], 1) >>

\* The call of parse_parallel has ended: it returned or it raised.
RunEnded == cpc \in {"returned", "raised"}

\* C28: under fair scheduling, once an append has failed inside the
\* writer the call of parse_parallel ends.
C28_RunEndsAfterWriterCrash == (wrpc = "crashed") ~> RunEnded

\* What the code does for inputs that fit into the queues: the run ends
\* by returning the counts the writer had added before it died, with no
\* exception, and with the output cut off at the rejected record.
C28_ShortRunsReturn ==
    /\ (wrpc = "crashed" /\ Len(input) <= MaxRecords) ~> Returned
    /\ []((wrpc = "crashed" /\ RunEnded) =>
            /\ Returned
            /\ exc = NoExc
            /\ stats = shared_stats
            /\ workers_done < num_workers
            /\ \A j \in 1 .. Len(output.records) :
                   ~SchemaRejects(output.records[j]))

\* The error records written for the url_no-th request.
ErrorRecords(url_no) ==
    { j \in 1 .. Len(crawl.written) :
        crawl.written[j] = CrawlRecord(url_no, TRUE) }

\* C21: for each request at most max_retries + 1 error records are
\* written, and an iteration that records an error after max_retries + 1
\* failing attempts ends the loop of that request.
C21_RetriesBounded ==
    /\ [](\A url_no \in 1 .. crawl.num_urls :
            Cardinality(ErrorRecords(url_no)) <= crawl.max_retries + 1)
    /\ [][(crawl.pc = "except" /\ crawl'.pc = "try"
               /\ crawl'.written # crawl.written) =>
             Cardinality(ErrorRecords(crawl.url_no)) < crawl.max_retries]_vars

\* What the code does: retries stays 0, so with max_retries = 0 a request
\* gets one error record, and with max_retries >= 1 and no max_errors an
\* error never ends the loop of its request.
C21_RetriesNeverCounted ==
    /\ [](crawl.retries = 0)
    /\ [](crawl.max_retries = 0 =>
            \A url_no \in 1 .. crawl.num_urls :
                Cardinality(ErrorRecords(url_no)) <= 1)
    /\ [][(crawl.pc = "except" /\ crawl.max_retries >= 1
               /\ crawl.max_errors = 0 /\ crawl'.pc # crawl.pc) =>
             crawl'.pc = "try"]_vars

\* C31: the tasks waiting on work_queue are, from head to tail, the last
\* records read, numbered upwards one by one to record_count - 1, each
\* with the record read at that place of the input; as workers only take
\* from the head, every record read was queued under its place in the
\* reading order, starting at 0, with no id left out or used twice.
C31_SeqIdsInReadingOrder ==
    LET waiting == Cardinality(TaskPositions)
    IN  /\ waiting <= record_count
        /\ record_count <= Len(input)
        /\ \A j \in 1 .. waiting :
               /\ j \in TaskPositions
               /\ work_queue[j][1] = record_count - waiting + j - 1
               /\ work_queue[j][2] = input[work_queue[j][1] + 1]

\* Three records were read and all three tasks wait on work_queue, with
\* the ids 0, 1, 2.
C31_Witness ==
    /\ record_count = 3
    /\ Len(work_queue) >= 3
    /\ work_queue[1] = << 0, input[1] >>
    /\ work_queue[2] = << 1, input[2] >>
    /\ work_queue[3] = << 2, input[3] >>

\* The latest call was a check() on a filter to which nothing was added.
CheckedFresh == call.op = "check" /\ added = {}

\* C32: on a filter to which nothing was added, check() returns False,
\* whatever size and hash_count the filter was made with.
C32_FreshFilterChecksFalse ==
    CheckedFresh => (call.raised = "none" /\ ~call.result)

\* What the code does ensure: a fresh filter with at least one cell and at
\* least one hash function checks False; one without hash functions
\* checks True for every item.
C32_FalseWithHashes ==
    (CheckedFresh /\ bloom_filter.size >= 1) =>
        /\ call.raised = "none"
        /\ call.result = (bloom_filter.hash_count = 0)

\* optimal_parameters returns a pair with cells but no hash function.
C32_NoPairWithoutHashes ==
    ParamsGiven => ~(params.size >= 1 /\ params.hash_count = 0)

\* The step is a call add(item) that returns.
Adds(item) == BloomFilterAdd(item) /\ ~HashesRaise(bloom_filter)

\* C33: a call add(item) that returns leaves 1 in every cell of the item,
\* each of them a cell of the bit array, and every other cell as it was;
\* and no step on a filter, add or check, takes a cell from 1 to 0 or
\* changes the cells there are.
C33_AddSetsCellsOnly ==
    /\ [][\A item \in Items :
            Adds(item) =>
                /\ CellsOf(item) \subseteq 0 .. (bloom_filter.size - 1)
                /\ \A cell \in 0 .. (bloom_filter.size - 1) :
                       bloom_filter'.bit_array[cell] =
                           IF cell \in CellsOf(item)
                           THEN 1
                           ELSE bloom_filter.bit_array[cell]]_vars
    /\ [][bloom_filter # NoFilter =>
            /\ DOMAIN bloom_filter'.bit_array = DOMAIN bloom_filter.bit_array
            /\ \A cell \in DOMAIN bloom_filter.bit_array :
                   bloom_filter'.bit_array[cell] >=
                       bloom_filter.bit_array[cell]]_vars

\* An add to a filter of two cells and two hash functions returned; both
\* hash values of the item fall on cell 1, and cell 0 is still 0.
C33_Witness ==
    /\ call.op = "add"
    /\ call.raised = "none"
    /\ bloom_filter.size = 2
    /\ bloom_filter.hash_count = 2
    /\ CellsOf(call.item) = {1}
    /\ bloom_filter.bit_array[0] = 0
    /\ bloom_filter.bit_array[1] = 1

\* The filter is the one its constructor made, with the items added to it
\* so far.
OnlyAddsCount ==
    bloom_filter =
        AddAll(BloomFilter(bloom_filter.size, bloom_filter.hash_count), added)

\* C34: a call of check() leaves the bit array, size and hash_count of the
\* filter as they were, so that the filter is at all times what the calls
\* of add() alone made it; and a check() that follows a check() of the
\* same item returns what that one returned.
C34_CheckChangesNothing ==
    /\ [][\A item \in Items :
            BloomFilterCheck(item) => bloom_filter' = bloom_filter]_vars
    /\ []((bloom_filter # NoFilter /\ ~HashesRaise(bloom_filter)) =>
            OnlyAddsCount)
    /\ [][(call.op = "check" /\ BloomFilterCheck(call.item)) =>
             call' = call]_vars

\* A check of an item that was never added returned True, the other item
\* having set all its cells, and the filter still is what that one add
\* made it.
C34_Witness ==
    /\ Checked
    /\ call.result
    /\ call.item \notin added
    /\ added # {}
    /\ bloom_filter.hash_count = 2
    /\ bloom_filter.size = 2
    /\ OnlyAddsCount

\* A filter exists on which add() returns.
Addable == bloom_filter # NoFilter /\ ~HashesRaise(bloom_filter)

\* C35: on every filter, adding an item twice gives the filter that
\* adding it once gives, and adding two items gives the same filter in
\* either order.
C35_AddIdempotentCommutative ==
    Addable =>
        \A k1 \in Items, k2 \in Items :
            /\ add(add(bloom_filter, k1), k1) = add(bloom_filter, k1)
            /\ add(add(bloom_filter, k1), k2) =
                   add(add(bloom_filter, k2), k1)

\* Both items were added to a filter of two cells and two hash functions
\* in which one item has cell 0 only and the other cell 1 only.
C35_Witness ==
    /\ call.op = "add"
    /\ call.raised = "none"
    /\ added = Items
    /\ bloom_filter.size = 2
    /\ bloom_filter.hash_count = 2
    /\ CellsOf(call.item) = {0}
    /\ \E item \in Items : CellsOf(item) = {1}

\* C36: at no time are two threads inside a method of the same filter.
C36_OneThreadInFilter == Cardinality(InFilter) <= 1

\* What the code does ensure: with a pool of one thread only one call of
\* fetch_url runs at a time, so the filter has one user, and a path
\* that was written is not written again.
C36_OneThreadWhenSerial ==
    fetch.parallelism = 1 =>
        /\ Cardinality(Running) <= 1
        /\ bloom_filter # NoFilter =>
               \A i \in DOMAIN fetch.written, j \in DOMAIN fetch.written :
                   fetch.written[i] = fetch.written[j] => i = j

\* The records of the prior output with a url and a null error, and their
\* keys.
Loadable ==
    { i \in DOMAIN load.records :
        load.records[i].has_url /\ load.records[i].error = "null" }

LoadableKeys == { bloom_filter_key(load.records[i].url) : i \in Loadable }

\* C37: load_bloom_filter adds and counts the key of each record that has a
\* url and a null error and does nothing for any other record; what it
\* returns is the filter holding exactly those keys, or None when the
\* output does not exist or no record has a url and a null error.
C37_LoadsRecordsWithoutError ==
    /\ [][LoadRecord =>
             LET record == load.records[load.line_no + 1]
             IN  IF record.has_url /\ record.error = "null"
                 THEN /\ bloom_filter' =
                             add(bloom_filter, bloom_filter_key(record.url))
                      /\ load'.count = load.count + 1
                 ELSE /\ bloom_filter' = bloom_filter
                      /\ load'.count = load.count]_vars
    /\ [](load.pc = "returned" =>
             IF load.exists /\ Loadable # {}
             THEN /\ load.returned = "filter"
                  /\ load.count = Cardinality(Loadable)
                  /\ added = LoadableKeys
                  /\ bloom_filter =
                         AddAll(BloomFilter(bloom_filter.size, 1),
                                LoadableKeys)
             ELSE /\ load.returned = "None"
                  /\ bloom_filter = NoFilter)

\* A filter is returned for an output that also holds a failed record, whose
\* key the filter does not hold.
C37_Witness ==
    /\ load.pc = "returned"
    /\ load.returned = "filter"
    /\ \E i \in DOMAIN load.records :
           /\ load.records[i].has_url
           /\ load.records[i].error = "set"
           /\ ~check(bloom_filter, bloom_filter_key(load.records[i].url))

\* C38: with max_errors a positive integer, count_error never exceeds
\* max_errors, the crawl has raised whenever count_error equals max_errors,
\* and once it has raised nothing more is attempted, written or counted.
C38_AbortsAtMaxErrors ==
    /\ [](crawl.max_errors > 0 =>
             /\ crawl.stats.count_error <= crawl.max_errors
             /\ crawl.stats.count_error = crawl.max_errors
                    <=> crawl.pc = "raised")
    /\ [][crawl.pc = "raised" => crawl' = crawl]_vars

\* The crawl raised at its second error with a URL of the input still
\* unattempted.
C38_Witness ==
    /\ crawl.pc = "raised"
    /\ crawl.max_errors = 2
    /\ crawl.stats.count_error = 2
    /\ crawl.url_no < crawl.num_urls

====
